---- MODULE Spec2Model ----
(***************************************************************************)
(* GuitarFlow: the image metadata ledger (ImageMetadataDBManager), the     *)
(* Pixabay collector's output records and the ImageDownloadManager.        *)
(*                                                                         *)
(* The ledger is the table image_metadata of collector_database.py; the    *)
(* download manager is image_download_manager.py.  A download_batch call   *)
(* is modelled step by step (one action per record stage and per fetch     *)
(* attempt), since it blocks in sleeps and network calls between steps.    *)
(***************************************************************************)
EXTENDS Integers, Sequences, FiniteSets, TLC

(***************************************************************************)
(* Bounds of the model.                                                    *)
(***************************************************************************)
\* longest list handed to insert_batch / download_batch
MaxBatch == 2
\* highest AUTOINCREMENT row id handed out
MaxRowId == 2
\* highest reading of the wall clock (datetime.now()) under the ledger-only specification
MaxClock == 2
\* number of pipeline calls (query_and_update_database, download_batch) in one behaviour
MaxCalls == 3

(***************************************************************************)
(* Values.                                                                 *)
(***************************************************************************)
\* Python's None / SQL NULL in an Optional[int] or Optional[datetime] field
NULL == -1

\* ImageSource members used as ledger inputs (the enum's .value strings)
Sources == {"PIXABAY", "UNSPLASH"}

\* ImageLabel members
Labels == {"ELECTRIC", "ACOUSTIC"}

\* the image ids the remote source hands out
Ids == {"a", "b"}

\* an ImageMetadata object as the collector's search creates it from a hit
NewMetadata(source, label, image_id, width, height, filesize, searched_at) ==
    [source        |-> source,
     label         |-> label,
     image_id      |-> image_id,
     image_url     |-> <<"largeImageURL", image_id>>,
     search_query  |-> "guitar",
     searched_at   |-> searched_at,
     license       |-> "Pixabay License",
     width         |-> width,
     height        |-> height,
     filesize      |-> filesize,
     is_downloaded |-> FALSE,
     downloaded_at |-> NULL]

VARIABLES
    db,          \* the rows of table image_metadata (committed state)
    nextRowId,   \* the next AUTOINCREMENT id
    now,         \* the wall clock
    last,        \* the most recent ledger call: its name, arguments, the rows before it, its result
    files,       \* the file store: target path -> file
    found,       \* the list the collector's last search returned
    pc,          \* where download_batch stands
    run,         \* the local variables of the running download_batch and what it did per record
    hist,        \* what earlier download_batch runs established (not program state)
    srch,        \* the local variables of the collector's search and the requests it made
    images,      \* table images of the ImageMetadataDB class and its AUTOINCREMENT sequence
    manager      \* the ImageDownloadManager: the settings its constructor stored

vars == <<db, nextRowId, now, last, files, found, pc, run, hist, srch, images, manager>>

(***************************************************************************)
(* The ledger: collector_database.py                                       *)
(***************************************************************************)

\* the columns a row stores for a metadata object, under row id `id`
MetadataToRow(id, m) ==
    [id            |-> id,
     source        |-> m.source,
     label         |-> m.label,
     image_id      |-> m.image_id,
     image_url     |-> m.image_url,
     search_query  |-> m.search_query,
     searched_at   |-> m.searched_at,
     license       |-> m.license,
     width         |-> m.width,
     height        |-> m.height,
     filesize      |-> m.filesize,
     is_downloaded |-> m.is_downloaded,
     downloaded_at |-> m.downloaded_at]

\* _row_to_metadata: the ImageMetadata of a row (the row id is dropped)
RowToMetadata(row) ==
    [source        |-> row.source,
     label         |-> row.label,
     image_id      |-> row.image_id,
     image_url     |-> row.image_url,
     search_query  |-> row.search_query,
     searched_at   |-> row.searched_at,
     license       |-> row.license,
     width         |-> row.width,
     height        |-> row.height,
     filesize      |-> row.filesize,
     is_downloaded |-> row.is_downloaded,
     downloaded_at |-> row.downloaded_at]

\* UniqueViolation with a fault: the table has no uniqueness constraint
UniqueViolationNone(rows, m) == FALSE

\* the column constraint "image_id TEXT NOT NULL UNIQUE": an INSERT of m
\* raises IntegrityError when a row with the same image_id is in the table
UniqueViolation(rows, m) == \E r \in rows : r.image_id = m.image_id

\* one INSERT statement that passes the constraint, on an open connection
ExecInsert(conn, m) ==
    [rows |-> conn.rows \cup {MetadataToRow(conn.seq, m)},
     seq  |-> conn.seq + 1]

\* InsertBatchLoop with a fault: the first IntegrityError ends the loop
RECURSIVE InsertBatchLoopAborts(_, _, _)
InsertBatchLoopAborts(conn, stats, metadata_list) ==
    IF metadata_list = <<>>
    THEN [conn |-> conn, stats |-> stats]
    ELSE LET m == Head(metadata_list) IN
         IF UniqueViolation(conn.rows, m)
         THEN [conn |-> conn, stats |-> [stats EXCEPT !.skipped = @ + 1]]
         ELSE InsertBatchLoopAborts(ExecInsert(conn, m),
                                    [stats EXCEPT !.inserted = @ + 1],
                                    Tail(metadata_list))

\* the loop of insert_batch over metadata_list on one connection:
\* an IntegrityError is caught per record and counted as skipped
RECURSIVE InsertBatchLoop(_, _, _)
InsertBatchLoop(conn, stats, metadata_list) ==
    IF metadata_list = <<>>
    THEN [conn |-> conn, stats |-> stats]
    ELSE LET m == Head(metadata_list) IN
         IF UniqueViolation(conn.rows, m)
         THEN InsertBatchLoop(conn,
                              [stats EXCEPT !.skipped = @ + 1],
                              Tail(metadata_list))
         ELSE InsertBatchLoop(ExecInsert(conn, m),
                              [stats EXCEPT !.inserted = @ + 1],
                              Tail(metadata_list))

\* insert_batch as a function of the table: the rows committed and the stats returned
InsertBatchResult(rows, seq, metadata_list) ==
    InsertBatchLoop([rows |-> rows, seq |-> seq],
                    [inserted |-> 0, skipped |-> 0],
                    metadata_list)

\* Coalesce with a fault: "SET column = ?", the given value also when it is NULL
CoalesceGiven(given, stored) == given

\* COALESCE(?, column)
Coalesce(given, stored) == IF given # NULL THEN given ELSE stored

\* the UPDATE statement of update_download_status applied to one row
UpdatedRow(r, t, width, height, filesize) ==
    [r EXCEPT !.is_downloaded = TRUE,
              !.downloaded_at = t,
              !.width         = Coalesce(width, r.width),
              !.height        = Coalesce(height, r.height),
              !.filesize      = Coalesce(filesize, r.filesize)]

\* UpdateRows with a fault: the rows the statement does not match are lost
UpdateRowsMatchedOnly(rows, t, image_id, width, height, filesize) ==
    {UpdatedRow(r, t, width, height, filesize) : r \in {x \in rows : x.image_id = image_id}}

\* UpdateRows with a fault: an UPDATE without its WHERE clause
UpdateRowsEveryRow(rows, t, image_id, width, height, filesize) ==
    {UpdatedRow(r, t, width, height, filesize) : r \in rows}

\* the table after the UPDATE ... WHERE image_id = ?
UpdateRows(rows, t, image_id, width, height, filesize) ==
    {IF r.image_id = image_id THEN UpdatedRow(r, t, width, height, filesize) ELSE r
        : r \in rows}

\* RowCountPositive with a fault: the count of all rows of the table
RowCountAny(rows, image_id) == rows # {}

\* cursor.rowcount > 0 for a statement with WHERE image_id = ?
RowCountPositive(rows, image_id) == \E r \in rows : r.image_id = image_id

\* the table after DELETE ... WHERE image_id = ?
DeleteRows(rows, image_id) == {r \in rows : r.image_id # image_id}

\* the (width, height, filesize) arguments a caller passes to update_download_status:
\* all absent, all measured, the width alone
UpdateArgs == {<<NULL, NULL, NULL>>, <<1280, 853, 900>>, <<100, NULL, NULL>>}

\* the metadata objects a caller of the ledger passes in: two ids of one source
\* (the second with the width and height the search API reported), and the first
\* id again under another source
LedgerInputs ==
    {NewMetadata("PIXABAY", "ELECTRIC", "a", NULL, NULL, NULL, 1),
     NewMetadata("PIXABAY", "ELECTRIC", "b", 640, 480, NULL, 1),
     NewMetadata("UNSPLASH", "ELECTRIC", "a", NULL, NULL, NULL, 1)}

\* all lists of length 0..n over the set S
ListsUpTo(S, n) == UNION {[1..k -> S] : k \in 0..n}

\* what the model leaves alone in a ledger-only step
DownloadUnchanged == UNCHANGED <<files, found, srch, pc, run, hist, images, manager>>

\* Insert with a fault: "INSERT OR REPLACE", a stored row with the same image_id
\* is replaced by the new one
InsertOrReplace(m) ==
    /\ pc = "idle"
    /\ nextRowId <= MaxRowId
    /\ db' = ExecInsert([rows |-> DeleteRows(db, m.image_id), seq |-> nextRowId], m).rows
    /\ nextRowId' = nextRowId + 1
    /\ last' = [op |-> "insert", args |-> <<m>>, pre |-> db,
                raised |-> "", ret |-> nextRowId]
    /\ UNCHANGED now
    /\ DownloadUnchanged

\* insert(metadata): one INSERT in its own transaction; an IntegrityError rolls back and is raised
Insert(m) ==
    /\ pc = "idle"
    /\ nextRowId <= MaxRowId
    /\ IF UniqueViolation(db, m)
       THEN /\ UNCHANGED <<db, nextRowId>>
            /\ last' = [op |-> "insert", args |-> <<m>>, pre |-> db,
                        raised |-> "IntegrityError", ret |-> NULL]
       ELSE /\ db' = ExecInsert([rows |-> db, seq |-> nextRowId], m).rows
            /\ nextRowId' = nextRowId + 1
            /\ last' = [op |-> "insert", args |-> <<m>>, pre |-> db,
                        raised |-> "", ret |-> nextRowId]
    /\ UNCHANGED now
    /\ DownloadUnchanged

\* insert_batch(metadata_list) on the ledger: the loop, then the commit of _get_connection
CommitInsertBatch(metadata_list) ==
    /\ pc = "idle"
    /\ LET res == InsertBatchResult(db, nextRowId, metadata_list) IN
       /\ db' = res.conn.rows
       /\ nextRowId' = res.conn.seq
       /\ last' = [op |-> "insert_batch", args |-> metadata_list, pre |-> db,
                   raised |-> "", ret |-> res.stats]
    /\ UNCHANGED now

\* Rollback with a fault: what the connection executed stays in the table
RollbackNone(committed, conn) == conn

\* conn.rollback() in _get_connection: the table and the AUTOINCREMENT sequence are
\* what they were when the connection was opened
Rollback(committed, conn) == committed

\* insert_batch(metadata_list) in which the INSERT of a record raises an error that
\* is not an IntegrityError (sqlite3.OperationalError, or a list entry without the
\* fields of an ImageMetadata): it leaves the loop and the with-block, which rolls
\* back and re-raises.  The record that raises is the last of metadata_list (the
\* entries after it are never looked at); the entries before it went through the loop.
InsertBatchRaises(metadata_list) ==
    /\ pc = "idle"
    /\ metadata_list # <<>>
    /\ LET committed == [rows |-> db, seq |-> nextRowId]
           part == InsertBatchResult(db, nextRowId,
                                     SubSeq(metadata_list, 1, Len(metadata_list) - 1))
           after == Rollback(committed, part.conn)
       IN /\ part.conn.seq <= MaxRowId + 1
          /\ db' = after.rows
          /\ nextRowId' = after.seq
          /\ last' = [op |-> "insert_batch", args |-> metadata_list, pre |-> db,
                      raised |-> "OperationalError", ret |-> NULL]
    /\ UNCHANGED now
    /\ DownloadUnchanged

\* insert_batch(metadata_list) called on the ledger alone
InsertBatch(metadata_list) ==
    /\ InsertBatchResult(db, nextRowId, metadata_list).conn.seq <= MaxRowId + 1
    /\ CommitInsertBatch(metadata_list)
    /\ DownloadUnchanged

\* update_download_status(image_id, width, height, filesize)
UpdateDownloadStatus(image_id, width, height, filesize) ==
    /\ pc = "idle"
    /\ now < MaxClock
    /\ db' = UpdateRows(db, now, image_id, width, height, filesize)
    /\ now' = now + 1
    /\ last' = [op |-> "update_download_status",
                args |-> <<image_id, width, height, filesize>>, pre |-> db,
                raised |-> "", ret |-> RowCountPositive(db, image_id)]
    /\ UNCHANGED nextRowId
    /\ DownloadUnchanged

\* delete(image_id)
Delete(image_id) ==
    /\ pc = "idle"
    /\ db' = DeleteRows(db, image_id)
    /\ last' = [op |-> "delete", args |-> <<image_id>>, pre |-> db,
                raised |-> "", ret |-> RowCountPositive(db, image_id)]
    /\ UNCHANGED <<nextRowId, now>>
    /\ DownloadUnchanged

\* no ledger call made yet
NoCall == [op |-> "none", args |-> <<>>, pre |-> {}, raised |-> "", ret |-> NULL]

\* the target paths data_dir/raw/{source}/{label}/{source}_{image_id}.jpg
Paths == Sources \X Labels \X (Ids \cup {"c"})

\* _get_filepath(metadata)
FilePath(m) == <<m.source, m.label, m.image_id>>

\* no file at a path
NoFile == [exists |-> FALSE, size |-> NULL, decodes |-> FALSE, width |-> NULL, height |-> NULL]

\* the complete image the file host serves for an image url
ImageFile == [exists |-> TRUE, size |-> 900, decodes |-> TRUE, width |-> 1280, height |-> 853]

\* the chunks written before the stream broke: a truncated file that does not decode
PartialFile == [exists |-> TRUE, size |-> 300, decodes |-> FALSE, width |-> NULL, height |-> NULL]

\* no download_batch running, none run yet
NoRun ==
    [metadata_list |-> <<>>, skip_already_downloaded |-> TRUE, idx |-> 1,
     attempt |-> 0, success_count |-> 0, failed_count |-> 0, skipped_count |-> 0,
     cur |-> <<>>, done |-> <<>>, events |-> <<>>,
     start_db |-> {}, failed_before |-> {}, returned |-> FALSE, result |-> <<>>,
     call |-> <<>>]

\* nothing established by earlier runs
NoHist == [verified |-> {}, failed |-> {}, calls |-> 0]

\* no search made yet
NoSearch ==
    [state |-> "idle", max_results |-> 0, per_page |-> 1, total_pages |-> 0, page |-> 1,
     broke |-> FALSE, metadata_list |-> <<>>, requests |-> <<>>, pages |-> <<>>]

\* a float is a fraction <<numerator, denominator>> in lowest terms
Float(n) == <<n, 1>>
Less(x, y) == x[1] * y[2] < y[1] * x[2]

\* the default min_sleep and max_sleep of ImageDownloadManager.__init__, in seconds
DefaultMinSleep == 15
DefaultMaxSleep == 30

\* the default max_retries of ImageDownloadManager.__init__
MaxRetries == 3

\* the check of ImageDownloadManager.__init__ on its sleep bounds passes
\* (max_retries is stored as given)
Accepts(max_retries, min_sleep, max_sleep) ==
    ~(Less(min_sleep, Float(0)) \/ Less(max_sleep, min_sleep))

\* the settings ImageDownloadManager.__init__ stores
NewManager(max_retries, min_sleep, max_sleep) ==
    [max_retries |-> max_retries, min_sleep |-> min_sleep, max_sleep |-> max_sleep]

\* _init_schema on a fresh database file, an empty data directory
Fresh ==
    /\ db = {}
    /\ nextRowId = 1
    /\ now = 1
    /\ last = NoCall
    /\ files = [p \in Paths |-> NoFile]
    /\ found = <<>>
    /\ pc = "idle"
    /\ run = NoRun
    /\ hist = NoHist
    /\ srch = NoSearch
    /\ images = [rows |-> {}, seq |-> 1]

\* a fresh ledger and an ImageDownloadManager constructed with its defaults
Init ==
    /\ Fresh
    /\ manager = NewManager(MaxRetries, Float(DefaultMinSleep), Float(DefaultMaxSleep))

\* the ledger under any sequence of its write calls
LedgerNext ==
    \/ \E m \in LedgerInputs : Insert(m)
    \/ \E metadata_list \in ListsUpTo(LedgerInputs, MaxBatch) : InsertBatch(metadata_list)
    \/ \E metadata_list \in ListsUpTo(LedgerInputs, MaxBatch) : InsertBatchRaises(metadata_list)
    \/ \E i \in Ids, a \in UpdateArgs : UpdateDownloadStatus(i, a[1], a[2], a[3])
    \/ \E i \in Ids : Delete(i)

SpecLedger == Init /\ [][LedgerNext]_vars

(***************************************************************************)
(* The collector's output and the ledger's read side.                      *)
(***************************************************************************)

\* two hits of the search API: one with imageWidth/imageHeight/imageSize,
\* one without them (hit.get(...) gives None)
HitA == [id |-> "a", imageWidth |-> 4000, imageHeight |-> 3000, imageSize |-> 5000]
HitB == [id |-> "b", imageWidth |-> NULL, imageHeight |-> NULL, imageSize |-> NULL]
HitC == [id |-> "c", imageWidth |-> 1280, imageHeight |-> 853, imageSize |-> NULL]

\* the hit lists a search accumulates: none (no hits, or a request error on the
\* first page), one hit, two hits, the same hit twice
SearchHits == {<<>>, <<HitA>>, <<HitA, HitB>>, <<HitB, HitB>>}

\* limit of get_pending_downloads as download_pending_from_db passes it by default
PendingLimit == 100

\* the ImageMetadata that PixabayCollector.search builds from one hit
HitToMetadata(label, hit, t) ==
    NewMetadata("PIXABAY", label, hit.id, hit.imageWidth, hit.imageHeight, hit.imageSize, t)

\* the rows get_all selects: WHERE is_downloaded = 0 when only_not_downloaded
Matching(rows, only_not_downloaded) ==
    {r \in rows : only_not_downloaded => ~r.is_downloaded}

\* the orders ORDER BY searched_at DESC can give the rows of S (ties in any order)
Orderings(S) ==
    {q \in [1..Cardinality(S) -> S] :
        /\ \A i \in DOMAIN q : \A j \in DOMAIN q : i # j => q[i] # q[j]
        /\ \A i \in DOMAIN q : \A j \in DOMAIN q :
              i < j => q[i].searched_at >= q[j].searched_at}

\* LIMIT ? on an ordered result
Limited(q, limit) == SubSeq(q, 1, IF Len(q) < limit THEN Len(q) ELSE limit)

\* the lists get_all(limit=limit, only_not_downloaded=...) can return;
\* get_pending_downloads is get_all with only_not_downloaded=True
GetAll(rows, only_not_downloaded, limit) ==
    {[i \in DOMAIN Limited(q, limit) |-> RowToMetadata(q[i])] :
        q \in Orderings(Matching(rows, only_not_downloaded))}

\* an Optional[ImageSource] / Optional[ImageLabel] filter that is None
NoFilter == "None"

\* the rows the WHERE clause of get_all selects: "source = ?" when source is given,
\* "label = ?" when label is given, "is_downloaded = 0" when only_not_downloaded
Selected(rows, source, label, only_not_downloaded) ==
    {r \in rows : /\ source # NoFilter => r.source = source
                  /\ label # NoFilter => r.label = label
                  /\ only_not_downloaded => ~r.is_downloaded}

\* the statement get_all builds: whether " LIMIT ?" and " OFFSET ?" are appended
Statement(limit, offset) == [limit |-> limit # NULL, offset |-> offset > 0]

\* SQLite's SELECT has OFFSET only as part of a LIMIT clause:
\* "... ORDER BY searched_at DESC OFFSET ?" is a syntax error
SyntaxError(stmt) == stmt.offset /\ ~stmt.limit

\* LIMIT limit OFFSET offset on an ordered result
Window(q, limit, offset) ==
    SubSeq(q, offset + 1, IF Len(q) < offset + limit THEN Len(q) ELSE offset + limit)

\* get_all(source, label, limit, offset, only_not_downloaded): the exception
\* conn.execute raises, or the lists it can return
GetAllQuery(rows, source, label, limit, offset, only_not_downloaded) ==
    LET stmt == Statement(limit, offset) IN
    IF SyntaxError(stmt)
    THEN [raised |-> "OperationalError", ret |-> {NULL}]
    ELSE [raised |-> "",
          ret |-> {LET w == Window(q, IF stmt.limit THEN limit ELSE Len(q),
                                      IF stmt.offset THEN offset ELSE 0)
                   IN [i \in DOMAIN w |-> RowToMetadata(w[i])] :
                      q \in Orderings(Selected(rows, source, label, only_not_downloaded))}]

\* GetPendingDownloads with a fault: the filter on is_downloaded is not passed on
GetPendingDownloadsAll(rows, limit, offset, source, label) ==
    GetAllQuery(rows, source, label, limit, offset, FALSE)

\* get_pending_downloads(limit, offset, source, label)
GetPendingDownloads(rows, limit, offset, source, label) ==
    GetAllQuery(rows, source, label, limit, offset, TRUE)

\* largest limit and offset a caller of the read operations passes
MaxLimit == 1
MaxOffset == 1

\* the source and label filters a caller passes
SourceFilters == {NoFilter, "PIXABAY"}
LabelFilters == {NoFilter, "ACOUSTIC"}

\* the records stored while the read operations are looked at: one of each source
\* and label, searched at time t
QueryInputs(t) ==
    {NewMetadata("PIXABAY", "ELECTRIC", "a", NULL, NULL, NULL, t),
     NewMetadata("UNSPLASH", "ACOUSTIC", "b", NULL, NULL, NULL, t)}

\* a call of get_all on the ledger
GetAllCall(source, label, limit, offset, only_not_downloaded) ==
    /\ pc = "idle"
    /\ LET res == GetAllQuery(db, source, label, limit, offset, only_not_downloaded) IN
       \E ret \in res.ret :
          last' = [op |-> "get_all",
                   args |-> <<source, label, limit, offset, only_not_downloaded>>,
                   pre |-> db, raised |-> res.raised, ret |-> ret]
    /\ UNCHANGED <<db, nextRowId, now>>
    /\ DownloadUnchanged

\* a call of get_pending_downloads on the ledger
GetPendingDownloadsCall(limit, offset, source, label) ==
    /\ pc = "idle"
    /\ LET res == GetPendingDownloads(db, limit, offset, source, label) IN
       \E ret \in res.ret :
          last' = [op |-> "get_pending_downloads",
                   args |-> <<limit, offset, source, label>>,
                   pre |-> db, raised |-> res.raised, ret |-> ret]
    /\ UNCHANGED <<db, nextRowId, now>>
    /\ DownloadUnchanged

(***************************************************************************)
(* The collector's search: pixabay_collector.py                            *)
(***************************************************************************)

\* largest results_per_page the collector is built with
MaxPerPage == 3
\* largest max_results a search is called with
MaxResults == 4

\* TotalPages with a fault: one page more than the floor of the quotient
TotalPagesPlusOne(max_results, per_page) == max_results \div per_page + 1

\* "total_pages = (max_results + self.per_page - 1) // self.per_page"
TotalPages(max_results, per_page) == (max_results + per_page - 1) \div per_page

\* ReachedMax with a fault: the comparison is strict
ReachedMaxLate(metadata_list, max_results) == Len(metadata_list) > max_results

\* "len(metadata_list) >= max_results"
ReachedMax(metadata_list, max_results) == Len(metadata_list) >= max_results

\* Exhausted with a fault: a short page does not end the pagination
ExhaustedNever(hits, per_page) == FALSE

\* "len(hits) < self.per_page"
Exhausted(hits, per_page) == Len(hits) < per_page

\* a hit of a page: one that carries 'id' and 'largeImageURL', or one that lacks
\* a key (hit['id'] raises KeyError)
HitKinds == {"hit", "malformed"}

\* what the request for one page can bring: an error (a network error or timeout in
\* get, an HTTPError from raise_for_status, a body json() cannot parse), or a
\* payload with up to per_page hits
PageOutcomes(per_page) ==
    {[kind |-> "error", hits |-> <<>>]}
       \cup {[kind |-> "ok", hits |-> h] : h \in ListsUpTo(HitKinds, per_page)}

\* "for hit in hits": from hit i on; a record is named by its page and its place in
\* the page.  The loop ends at the end of the page, at max_results, or by the
\* exception of a malformed hit.
RECURSIVE AccumulateHits(_, _, _, _, _)
AccumulateHits(metadata_list, hits, i, page, max_results) ==
    IF i > Len(hits)
    THEN [metadata_list |-> metadata_list, raised |-> FALSE]
    ELSE IF ReachedMax(metadata_list, max_results)
    THEN [metadata_list |-> metadata_list, raised |-> FALSE]
    ELSE IF hits[i] = "malformed"
    THEN [metadata_list |-> metadata_list, raised |-> TRUE]
    ELSE AccumulateHits(Append(metadata_list, <<page, i>>), hits, i + 1, page, max_results)

\* what the search steps leave alone
SearchUnchanged == UNCHANGED <<db, nextRowId, now, last, files, found, pc, run, hist, images, manager>>

\* search(query, label, max_results) on a collector built with results_per_page:
\* total_pages is computed, metadata_list is empty
Search(max_results, per_page) ==
    /\ pc = "idle"
    /\ srch.state # "loop"
    /\ srch' = [NoSearch EXCEPT !.state = "loop",
                                !.max_results = max_results,
                                !.per_page = per_page,
                                !.total_pages = TotalPages(max_results, per_page)]
    /\ SearchUnchanged

\* one pass of "for page in range(1, total_pages + 1)": the request, the hits, the breaks
FetchPage(outcome) ==
    /\ srch.state = "loop"
    /\ ~srch.broke
    /\ srch.page <= srch.total_pages
    /\ LET acc == IF outcome.kind = "error"
                  THEN [metadata_list |-> srch.metadata_list, raised |-> TRUE]
                  ELSE AccumulateHits(srch.metadata_list, outcome.hits, 1, srch.page,
                                      srch.max_results)
           broke == \/ acc.raised
                    \/ ReachedMax(acc.metadata_list, srch.max_results)
                    \/ Exhausted(outcome.hits, srch.per_page)
       IN srch' = [srch EXCEPT
                     !.requests = Append(@, <<srch.page, Len(srch.metadata_list)>>),
                     !.pages = Append(@, [kind |-> outcome.kind, hits |-> outcome.hits,
                                          failed |-> acc.raised]),
                     !.metadata_list = acc.metadata_list,
                     !.broke = broke,
                     !.page = IF broke THEN @ ELSE @ + 1]
    /\ SearchUnchanged

\* the loop is over or was left by a break: "return metadata_list"
ReturnFound ==
    /\ srch.state = "loop"
    /\ srch.broke \/ srch.page > srch.total_pages
    /\ srch' = [srch EXCEPT !.state = "returned"]
    /\ SearchUnchanged

\* searches, one after the other
SearchNext ==
    \/ \E max_results \in 0..MaxResults, per_page \in 1..MaxPerPage :
          Search(max_results, per_page)
    \/ \E outcome \in PageOutcomes(srch.per_page) : FetchPage(outcome)
    \/ ReturnFound

SpecSearch == Init /\ [][SearchNext]_vars

(***************************************************************************)
(* The download manager: image_download_manager.py                         *)
(***************************************************************************)

\* what one requests.get can bring: no response at all (timeout, connection
\* error), or a response with a status and a body stream
Responses ==
    {[kind |-> "no_response", status |-> 0, body |-> "none"],
     [kind |-> "response", status |-> 429, body |-> "none"],
     [kind |-> "response", status |-> 500, body |-> "none"],
     [kind |-> "response", status |-> 200, body |-> "image"],
     [kind |-> "response", status |-> 200, body |-> "not_image"],
     [kind |-> "response", status |-> 200, body |-> "broken_stream"]}

\* response.raise_for_status() raises HTTPError
RaisesForStatus(status) == status >= 400 /\ status < 600

\* Excepts with a fault: only "except HTTPError" is there
ExceptsHTTPErrorOnly(exception) == exception = "HTTPError"

\* "except HTTPError" and "except Exception" around the body of
\* _download_single_image: every exception raised in it is caught
Excepts(exception) == TRUE

\* _download_single_image: what it returns, the file it leaves at the target path,
\* and whether an exception leaves it
DownloadSingleImage(file, response) ==
    IF response.kind = "no_response"
    THEN [ok |-> FALSE, file |-> file,               \* get raises Timeout / ConnectionError
          raised |-> ~Excepts("RequestException")]
    ELSE IF RaisesForStatus(response.status)
    THEN [ok |-> FALSE, file |-> file, raised |-> ~Excepts("HTTPError")]
    ELSE IF response.status = 429
    THEN [ok |-> FALSE, file |-> file, raised |-> FALSE]
    ELSE IF response.body = "broken_stream"
    THEN [ok |-> FALSE, file |-> PartialFile,        \* open(.., 'wb'), iter_content raises
          raised |-> ~Excepts("ChunkedEncodingError")]
    ELSE IF response.body = "not_image"
    THEN [ok |-> FALSE, file |-> NoFile,             \* Image.open raises, caught, unlink
          raised |-> FALSE]
    ELSE [ok |-> TRUE, file |-> ImageFile, raised |-> FALSE]

\* Measured with a fault: the size alone is measured, width and height are not passed
MeasuredSizeOnly(file) == <<NULL, NULL, file.size>>

\* get_filesize_bytes and Image.open(filepath).size, (None, None) when it raises:
\* the (width, height, filesize) passed to update_download_status
Measured(file) ==
    <<IF file.decodes THEN file.width ELSE NULL,
      IF file.decodes THEN file.height ELSE NULL,
      file.size>>

\* MoreAttempts with a fault: the retry loop stops one attempt early
MoreAttemptsShort(attempt) == attempt < manager.max_retries - 1

\* range(1, max_retries + 1) has an attempt after this one (attempt < max_retries)
MoreAttempts(attempt) == attempt < manager.max_retries

\* RetrySleeps with a fault: sleep(5) follows every failed attempt
RetrySleepsAlways(attempt) == TRUE

\* "if attempt < self.max_retries: sleep(5)" after a failed attempt
RetrySleeps(attempt) == attempt < manager.max_retries

\* SleepsAfter with a fault: the rate-limit sleep follows the last record too
SleepsAfterAlways(idx, total) == TRUE

\* "if idx < total: self._random_sleep()"
SleepsAfter(idx, total) == idx < total

\* SkipsMarked with a fault: skip_already_downloaded is ignored
SkipsMarkedNever(skip_already_downloaded, metadata) == FALSE

\* SkipsMarked with a fault: the record's own flag is ignored
SkipsMarkedAnyRecord(skip_already_downloaded, metadata) == skip_already_downloaded

\* "if skip_already_downloaded and metadata.is_downloaded"
SkipsMarked(skip_already_downloaded, metadata) ==
    skip_already_downloaded /\ metadata.is_downloaded

\* the record download_batch is at, and the length of its list
Cur == run.metadata_list[run.idx]
Total == Len(run.metadata_list)

\* what download_batch did for one record
Summary(stage, existed, requests, failures, retry_sleeps, rate_sleep, update, status, db_same, files_same) ==
    [stage |-> stage, existed |-> existed, requests |-> requests, failures |-> failures,
     retry_sleeps |-> retry_sleeps, rate_sleep |-> rate_sleep, update |-> update,
     status |-> status, db_same |-> db_same, files_same |-> files_same]

\* CallUpdate with a fault: the UPDATE is buffered and not committed on return
CallUpdateBuffered(image_id, m) == UNCHANGED <<db, now, last>>

\* the ledger call update_download_status made from inside download_batch:
\* its own connection, committed when the call returns
CallUpdate(image_id, m) ==
    /\ db' = UpdateRows(db, now, image_id, m[1], m[2], m[3])
    /\ now' = now + 1
    /\ last' = [op |-> "update_download_status",
                args |-> <<image_id, m[1], m[2], m[3]>>, pre |-> db,
                raised |-> "", ret |-> RowCountPositive(db, image_id)]

\* download_batch(metadata_list, skip_already_downloaded): the counters are set to 0
DownloadBatch(metadata_list, skip_already_downloaded) ==
    /\ pc = "idle"
    /\ hist.calls < MaxCalls
    /\ pc' = "record"
    /\ run' = [NoRun EXCEPT !.metadata_list = metadata_list,
                            !.skip_already_downloaded = skip_already_downloaded,
                            !.start_db = db,
                            !.failed_before = hist.failed]
    /\ hist' = [hist EXCEPT !.calls = @ + 1]
    /\ UNCHANGED <<db, nextRowId, now, last, files, found, srch, images, manager>>

\* SkipMarkedDownloaded with a fault: "continue" without "skipped_count += 1"
SkipMarkedDownloadedUncounted ==
    /\ pc = "record"
    /\ run.idx <= Total
    /\ SkipsMarked(run.skip_already_downloaded, Cur)
    /\ run' = [run EXCEPT
                 !.idx = @ + 1,
                 !.done = Append(@, Summary("marked_downloaded", files[FilePath(Cur)].exists,
                                            0, 0, 0, FALSE, <<>>, "SKIPPED", TRUE, TRUE))]
    /\ hist' = [hist EXCEPT !.failed = @ \ {FilePath(Cur)}]
    /\ UNCHANGED <<db, nextRowId, now, last, files, found, srch, images, manager, pc>>

\* step 1: the record is marked downloaded and skip_already_downloaded is set
SkipMarkedDownloaded ==
    /\ pc = "record"
    /\ run.idx <= Total
    /\ SkipsMarked(run.skip_already_downloaded, Cur)
    /\ run' = [run EXCEPT
                 !.skipped_count = @ + 1,
                 !.idx = @ + 1,
                 !.done = Append(@, Summary("marked_downloaded", files[FilePath(Cur)].exists,
                                            0, 0, 0, FALSE, <<>>, "SKIPPED", TRUE, TRUE))]
    /\ hist' = [hist EXCEPT !.failed = @ \ {FilePath(Cur)}]
    /\ UNCHANGED <<db, nextRowId, now, last, files, found, srch, images, manager, pc>>

\* step 2: the target file exists: measure it, update the ledger, count it skipped
FileExistsOnDisk ==
    /\ pc = "record"
    /\ run.idx <= Total
    /\ ~SkipsMarked(run.skip_already_downloaded, Cur)
    /\ files[FilePath(Cur)].exists
    /\ LET file == files[FilePath(Cur)]
           call == <<Cur.image_id>> \o Measured(file)
       IN /\ CallUpdate(Cur.image_id, Measured(file))
          /\ run' = [run EXCEPT
                       !.skipped_count = @ + 1,
                       !.idx = @ + 1,
                       !.events = Append(@, <<"update", run.idx>>),
                       !.done = Append(@, Summary("file_exists", TRUE, 0, 0, 0, FALSE, call,
                                                  "SKIPPED", db' = db, TRUE))]
          /\ hist' = [hist EXCEPT
                       !.verified = IF file.decodes THEN @ \cup {Cur.image_id} ELSE @,
                       !.failed = @ \ {FilePath(Cur)}]
    /\ UNCHANGED <<nextRowId, files, found, srch, images, manager, pc>>

\* the events of the end of a record that reached the fetch stage
EndEvents(idx, total) ==
    IF SleepsAfter(idx, total) THEN <<<<"rate_sleep", idx>>>> ELSE <<>>

\* range(1, max_retries + 1) has a first attempt
LoopEntered(max_retries) == 1 < max_retries + 1

\* step 3 begins: "success = False", then the retry loop is entered; when its range
\* is empty the loop body never runs and the record is counted failed
BeginFetch ==
    /\ pc = "record"
    /\ run.idx <= Total
    /\ ~SkipsMarked(run.skip_already_downloaded, Cur)
    /\ ~files[FilePath(Cur)].exists
    /\ IF LoopEntered(manager.max_retries)
       THEN /\ pc' = "attempt"
            /\ run' = [run EXCEPT !.attempt = 1,
                                  !.cur = [requests |-> 0, failures |-> 0, retry_sleeps |-> 0,
                                           pre_db |-> db, pre_files |-> files]]
            /\ UNCHANGED hist
       ELSE /\ pc' = "record"
            /\ run' = [run EXCEPT
                         !.failed_count = @ + 1,
                         !.idx = @ + 1,
                         !.events = @ \o EndEvents(run.idx, Total),
                         !.done = Append(@, Summary("fetch", FALSE, 0, 0, 0,
                                                    SleepsAfter(run.idx, Total),
                                                    <<>>, "FAILED", TRUE, TRUE))]
            /\ hist' = [hist EXCEPT !.failed = @ \cup {FilePath(Cur)}]
    /\ UNCHANGED <<db, nextRowId, now, last, files, found, srch, images, manager>>

\* the events of a failed attempt: the request, and the sleep(5) when it is made
FailedAttemptEvents(idx, attempt) ==
    <<<<"get", idx>>>> \o (IF RetrySleeps(attempt) THEN <<<<"retry_sleep", idx>>>> ELSE <<>>)

\* one pass of the retry loop: _download_single_image, then break, sleep(5) and go
\* round, or leave the loop; after the loop the ledger update or the failed count,
\* and the rate-limit sleep
Attempt(response) ==
    /\ pc = "attempt"
    /\ LET path == FilePath(Cur)
           res == DownloadSingleImage(files[path], response)
           requests == run.cur.requests + 1
           failures == run.cur.failures + (IF res.ok THEN 0 ELSE 1)
           after == [files EXCEPT ![path] = res.file]
           retry_sleeps == run.cur.retry_sleeps +
                             (IF ~res.ok /\ RetrySleeps(run.attempt) THEN 1 ELSE 0)
       IN /\ files' = after
          /\ IF res.raised
             THEN /\ pc' = "raised"           \* the exception leaves download_batch
                  /\ run' = [run EXCEPT !.events = Append(@, <<"get", run.idx>>)]
                  /\ UNCHANGED <<db, now, last, hist>>
             ELSE IF res.ok
             THEN /\ CallUpdate(Cur.image_id, Measured(res.file))
                  /\ pc' = "record"
                  /\ run' = [run EXCEPT
                       !.success_count = @ + 1,
                       !.idx = @ + 1,
                       !.events = @ \o <<<<"get", run.idx>>, <<"update", run.idx>>>>
                                    \o EndEvents(run.idx, Total),
                       !.done = Append(@, Summary("fetch", FALSE, requests, failures,
                                    run.cur.retry_sleeps, SleepsAfter(run.idx, Total),
                                    <<Cur.image_id>> \o Measured(res.file), "SUCCESS",
                                    db' = run.cur.pre_db, after = run.cur.pre_files))]
                  /\ hist' = [hist EXCEPT !.verified = @ \cup {Cur.image_id},
                                           !.failed = @ \ {path}]
             ELSE IF MoreAttempts(run.attempt)
             THEN /\ pc' = "attempt"
                  /\ run' = [run EXCEPT
                       !.attempt = @ + 1,
                       !.events = @ \o FailedAttemptEvents(run.idx, run.attempt),
                       !.cur = [@ EXCEPT !.requests = requests, !.failures = failures,
                                         !.retry_sleeps = retry_sleeps]]
                  /\ UNCHANGED <<db, now, last, hist>>
             ELSE /\ pc' = "record"
                  /\ run' = [run EXCEPT
                       !.failed_count = @ + 1,
                       !.idx = @ + 1,
                       !.events = @ \o FailedAttemptEvents(run.idx, run.attempt)
                                    \o EndEvents(run.idx, Total),
                       !.done = Append(@, Summary("fetch", FALSE, requests, failures,
                                    retry_sleeps, SleepsAfter(run.idx, Total),
                                    <<>>, "FAILED",
                                    db = run.cur.pre_db, after = run.cur.pre_files))]
                  /\ hist' = [hist EXCEPT !.failed = @ \cup {path}]
                  /\ UNCHANGED <<db, now, last>>
    /\ UNCHANGED <<nextRowId, found, srch, images, manager>>

\* the loop is over: the DownloadResult is returned
ReturnResult ==
    /\ pc = "record"
    /\ run.idx > Total
    /\ pc' = "idle"
    /\ run' = [run EXCEPT !.returned = TRUE,
                          !.result = [success |-> run.success_count,
                                      failed  |-> run.failed_count,
                                      skipped |-> run.skipped_count]]
    /\ UNCHANGED <<db, nextRowId, now, last, files, found, srch, images, manager, hist>>

\* PixabayCollector.search(query, label, max_results) returning the records of `hits`
SearchResult(label, hits, t) == [i \in DOMAIN hits |-> HitToMetadata(label, hits[i], t)]

\* query_and_update_database for one (query, label): search, then
\* "if pixabay_search_metadata: insert_batch(...)"
QueryAndUpdateDatabase(label, hits) ==
    /\ pc = "idle"
    /\ hist.calls < MaxCalls
    /\ found' = SearchResult(label, hits, now)
    /\ IF hits # <<>>
       THEN CommitInsertBatch(SearchResult(label, hits, now))
       ELSE UNCHANGED <<db, nextRowId, now, last>>
    /\ run' = NoRun
    /\ hist' = [hist EXCEPT !.calls = @ + 1]
    /\ UNCHANGED <<files, pc, srch, images, manager>>

\* download_batch on the ledger's pending queue, as data_collection_main and
\* download_pending_from_db call it
DownloadPending ==
    \E metadata_list \in GetAll(db, TRUE, PendingLimit) : DownloadBatch(metadata_list, TRUE)

\* "limit if limit else 100": None and 0 are both falsy
LimitOrDefault(limit) == IF limit # NULL /\ limit # 0 THEN limit ELSE PendingLimit

\* the (limit, source, label) a caller passes to download_pending_from_db
PendingCalls ==
    {<<NULL, NoFilter, NoFilter>>, <<0, NoFilter, NoFilter>>, <<1, "PIXABAY", "ELECTRIC">>}

\* download_pending_from_db(limit, source, label): get_pending_downloads, then
\* DownloadResult(0, 0, 0) at once when the list is empty, download_batch on the
\* list otherwise (skip_already_downloaded at its default True)
DownloadPendingFromDb(limit, source, label) ==
    /\ pc = "idle"
    /\ hist.calls < MaxCalls
    /\ LET pending == GetPendingDownloads(db, LimitOrDefault(limit), 0, source, label)
           called == [NoRun EXCEPT !.call = <<limit, source, label>>,
                                   !.start_db = db,
                                   !.failed_before = hist.failed]
       IN \E pending_metadata \in pending.ret :
             IF pending_metadata = <<>>
             THEN /\ pc' = "idle"
                  /\ run' = [called EXCEPT !.returned = TRUE,
                                           !.result = [success |-> 0, failed |-> 0,
                                                       skipped |-> 0]]
             ELSE /\ pc' = "record"
                  /\ run' = [called EXCEPT !.metadata_list = pending_metadata]
    /\ hist' = [hist EXCEPT !.calls = @ + 1]
    /\ UNCHANGED <<db, nextRowId, now, last, files, found, srch, images, manager>>

\* download_batch on a get_all list, with either setting of skip_already_downloaded
DownloadAll ==
    \E skip \in BOOLEAN :
       \E metadata_list \in GetAll(db, FALSE, PendingLimit) : DownloadBatch(metadata_list, skip)

\* download_batch on the collector's output
DownloadFound == DownloadBatch(found, TRUE)

\* the pipeline: search and insert_batch, and download_batch on the ledger's lists
\* or on the collector's output
DownloadNext ==
    \/ \E label \in Labels, hits \in SearchHits :
          QueryAndUpdateDatabase(label, hits)
    \/ DownloadPending
    \/ \E call \in PendingCalls : DownloadPendingFromDb(call[1], call[2], call[3])
    \/ DownloadAll
    \/ DownloadFound
    \/ SkipMarkedDownloaded
    \/ FileExistsOnDisk
    \/ BeginFetch
    \/ \E response \in Responses : Attempt(response)
    \/ ReturnResult

SpecDownload == Init /\ [][DownloadNext]_vars

\* the ledger's read operations between its writes: records are stored by insert
\* at the time of their search and marked by update_download_status with the
\* measures of a fetched file
QueryNext ==
    \/ \E m \in QueryInputs(now) : Insert(m)
    \/ \E i \in Ids :
          UpdateDownloadStatus(i, Measured(ImageFile)[1], Measured(ImageFile)[2],
                               Measured(ImageFile)[3])
    \/ \E source \in SourceFilters, label \in LabelFilters,
          limit \in {NULL} \cup (0..MaxLimit), offset \in 0..MaxOffset,
          only_not_downloaded \in BOOLEAN :
          GetAllCall(source, label, limit, offset, only_not_downloaded)
    \/ \E source \in SourceFilters, label \in LabelFilters,
          limit \in 0..MaxLimit, offset \in 0..MaxOffset :
          GetPendingDownloadsCall(limit, offset, source, label)

SpecQuery == Init /\ [][QueryNext]_vars

\* the hit lists of a first page of n distinct hits, n = 0, 1, 2, 3
EndToEndHits == {<<>>, <<HitA>>, <<HitA, HitB>>, <<HitA, HitB, HitC>>}

\* data_collection_main on a fresh database and an empty data directory: one
\* query_and_update_database, then download_batch on the ledger's lists or on the
\* collector's output
EndToEndNext ==
    \/ /\ hist.calls = 0
       /\ \E label \in Labels, hits \in EndToEndHits : QueryAndUpdateDatabase(label, hits)
    \/ hist.calls > 0 /\ DownloadPending
    \/ hist.calls > 0 /\ DownloadAll
    \/ hist.calls > 0 /\ DownloadFound
    \/ SkipMarkedDownloaded
    \/ FileExistsOnDisk
    \/ BeginFetch
    \/ \E response \in Responses : Attempt(response)
    \/ ReturnResult

SpecEndToEnd == Init /\ [][EndToEndNext]_vars

(***************************************************************************)
(* The ImageMetadataDB class: image_metadata_db.py                         *)
(***************************************************************************)

\* the fields ImageMetadata (collector_models_enums, the class this module imports)
\* requires: those declared without a default
RequiredFields ==
    {"source", "label", "image_id", "image_url", "search_query", "searched_at", "license"}

\* the attributes of metadata that the INSERT of insert and insert_batch reads
InsertReads ==
    {"source", "label", "source_id", "url", "search_query", "license", "downloaded_at",
     "width", "height", "filesize", "is_trainable"}

\* the number of "?" in the VALUES list of insert (insert_batch has one per column)
InsertPlaceholders == 10

\* the keyword arguments _row_to_metadata passes to ImageMetadata(...)
RowToMetadataPasses ==
    {"source", "label", "source_id", "url", "search_query", "license", "downloaded_at",
     "width", "height", "filesize", "is_trainable"}

\* pydantic accepts the keyword arguments when every required field is among them
Validates(given) == RequiredFields \subseteq given

\* an object that carries the attributes the INSERT reads
Stored(source, label, source_id) ==
    [source |-> source, label |-> label, source_id |-> source_id,
     url |-> <<"largeImageURL", source_id>>, search_query |-> "guitar",
     license |-> "Pixabay License", downloaded_at |-> 1, width |-> NULL, height |-> NULL,
     filesize |-> NULL, is_trainable |-> TRUE]

\* what a caller passes to insert and insert_batch of ImageMetadataDB: an
\* ImageMetadata as the module imports it, and two objects with the attributes the
\* INSERT reads
ImagesInputs ==
    {NewMetadata("PIXABAY", "ELECTRIC", "a", NULL, NULL, NULL, 1),
     Stored("PIXABAY", "ELECTRIC", "a"),
     Stored("UNSPLASH", "ACOUSTIC", "b")}

\* the loop of ImageMetadataDB.insert_batch on one connection: reading a missing
\* attribute raises AttributeError, which leaves the loop; an IntegrityError
\* (source_id TEXT NOT NULL UNIQUE) is caught and counted as skipped
RECURSIVE ImagesInsertLoop(_, _, _)
ImagesInsertLoop(conn, stats, metadata_list) ==
    IF metadata_list = <<>>
    THEN [conn |-> conn, stats |-> stats, raised |-> ""]
    ELSE LET m == Head(metadata_list) IN
         IF ~(InsertReads \subseteq DOMAIN m)
         THEN [conn |-> conn, stats |-> stats, raised |-> "AttributeError"]
         ELSE IF \E r \in conn.rows : r.source_id = m.source_id
         THEN ImagesInsertLoop(conn, [stats EXCEPT !.skipped = @ + 1], Tail(metadata_list))
         ELSE ImagesInsertLoop([rows |-> conn.rows \cup {m @@ [id |-> conn.seq]},
                                seq  |-> conn.seq + 1],
                               [stats EXCEPT !.inserted = @ + 1], Tail(metadata_list))

\* what an ImageMetadataDB step leaves alone
ImagesUnchanged == UNCHANGED <<db, nextRowId, now, files, found, srch, pc, run, hist, manager>>

\* ImageMetadataDB.insert_batch(metadata_list)
ImagesInsertBatch(metadata_list) ==
    /\ pc = "idle"
    /\ LET res == ImagesInsertLoop(images, [inserted |-> 0, skipped |-> 0], metadata_list) IN
       /\ res.conn.seq <= MaxRowId + 1
       /\ images' = IF res.raised = "" THEN res.conn ELSE Rollback(images, res.conn)
       /\ last' = [op |-> "ImageMetadataDB.insert_batch", args |-> metadata_list,
                   pre |-> images.rows, raised |-> res.raised,
                   ret |-> IF res.raised = "" THEN res.stats ELSE NULL]
    /\ ImagesUnchanged

\* ImageMetadataDB.insert(metadata): reading a missing attribute raises
\* AttributeError; the statement names 11 columns and has 10 placeholders, which
\* conn.execute rejects with OperationalError
ImagesInsert(m) ==
    /\ pc = "idle"
    /\ last' = [op |-> "ImageMetadataDB.insert", args |-> <<m>>, pre |-> images.rows,
                raised |-> IF ~(InsertReads \subseteq DOMAIN m) THEN "AttributeError"
                           ELSE IF Cardinality(InsertReads) # InsertPlaceholders
                           THEN "OperationalError" ELSE "",
                ret |-> NULL]
    /\ UNCHANGED images
    /\ ImagesUnchanged

\* the rows "WHERE 1=1 [AND source = ?] [AND label = ?]" selects
ImagesSelected(rows, source, label) ==
    {r \in rows : /\ source # NoFilter => r.source = source
                  /\ label # NoFilter => r.label = label}

\* the orders ORDER BY downloaded_at DESC can give the rows of S
ImagesOrderings(S) ==
    {q \in [1..Cardinality(S) -> S] :
        /\ \A i \in DOMAIN q : \A j \in DOMAIN q : i # j => q[i] # q[j]
        /\ \A i \in DOMAIN q : \A j \in DOMAIN q :
              i < j => q[i].downloaded_at >= q[j].downloaded_at}

\* ImageMetadataDB.get_all(source, label): _row_to_metadata is applied to every
\* row selected, and ImageMetadata(...) raises ValidationError on its arguments
ImagesGetAllResult(rows, source, label) ==
    LET selected == ImagesSelected(rows, source, label) IN
    IF selected # {} /\ ~Validates(RowToMetadataPasses)
    THEN [raised |-> "ValidationError", ret |-> {NULL}]
    ELSE [raised |-> "", ret |-> ImagesOrderings(selected)]

\* ImageMetadataDB.count(source, label): SELECT COUNT(*) with the same conditions
ImagesCountResult(rows, source, label) == Cardinality(ImagesSelected(rows, source, label))

\* a call of ImageMetadataDB.get_all
ImagesGetAll(source, label) ==
    /\ pc = "idle"
    /\ LET res == ImagesGetAllResult(images.rows, source, label) IN
       \E ret \in res.ret :
          last' = [op |-> "ImageMetadataDB.get_all", args |-> <<source, label>>,
                   pre |-> images.rows, raised |-> res.raised, ret |-> ret]
    /\ UNCHANGED images
    /\ ImagesUnchanged

\* a call of ImageMetadataDB.count
ImagesCount(source, label) ==
    /\ pc = "idle"
    /\ last' = [op |-> "ImageMetadataDB.count", args |-> <<source, label>>,
                pre |-> images.rows, raised |-> "",
                ret |-> ImagesCountResult(images.rows, source, label)]
    /\ UNCHANGED images
    /\ ImagesUnchanged

\* the ImageMetadataDB class under any sequence of its calls
ImagesNext ==
    \/ \E m \in ImagesInputs : ImagesInsert(m)
    \/ \E metadata_list \in ListsUpTo(ImagesInputs, MaxBatch) : ImagesInsertBatch(metadata_list)
    \/ \E source \in {NoFilter} \cup Sources, label \in {NoFilter} \cup Labels :
          ImagesGetAll(source, label)
    \/ \E source \in {NoFilter} \cup Sources, label \in {NoFilter} \cup Labels :
          ImagesCount(source, label)

SpecImages == Init /\ [][ImagesNext]_vars

(***************************************************************************)
(* Claims about the ledger, checked under SpecLedger.                      *)
(***************************************************************************)

\* x and y (rows or metadata objects) carry the same (source, external_id)
SameKey(x, y) == x.source = y.source /\ x.image_id = y.image_id

\* the entries of the last insert_batch list whose key was stored before the call
StoredEntries ==
    {i \in 1..Len(last.args) : \E r \in last.pre : SameKey(r, last.args[i])}

\* the entries of the last insert_batch list whose key appeared earlier in the list
RepeatedEntries ==
    {i \in 1..Len(last.args) : \E j \in 1..(i - 1) : SameKey(last.args[j], last.args[i])}

\* C1: in every reachable ledger state no two stored records have the same
\* (source, external_id); an insert_batch entry whose key is already stored leaves
\* the stored record unchanged in every field and is counted as skipped (the
\* batch stores exactly as many rows as it counts inserted).
C1_UniqueKeyAndSkip ==
    /\ \A r1 \in db : \A r2 \in db : SameKey(r1, r2) => r1 = r2
    /\ (last.op = "insert_batch" /\ last.raised = "") =>
          /\ \A i \in StoredEntries : \A r \in last.pre :
                SameKey(r, last.args[i]) => r \in db
          /\ last.ret.skipped >= Cardinality(StoredEntries)
          /\ last.ret.inserted + last.ret.skipped = Len(last.args)
          /\ Cardinality(db) = Cardinality(last.pre) + last.ret.inserted

\* C1 witness: an insert_batch met the key of a stored, already downloaded record
C1_Witness ==
    /\ last.op = "insert_batch"
    /\ last.raised = ""
    /\ last.ret.skipped > 0
    /\ \E i \in StoredEntries : \E r \in last.pre :
          SameKey(r, last.args[i]) /\ r.is_downloaded /\ r \in db

\* C5: inserting the same batch of N records (pairwise distinct keys, none yet
\* stored) twice returns inserted=N, skipped=0 and then inserted=0, skipped=N, and
\* the second call leaves the ledger as the first left it.  The first call is the
\* insert_batch just made, the second is insert_batch applied to its result.
C5_SameBatchTwice ==
    (/\ last.op = "insert_batch"
     /\ last.raised = ""
     /\ StoredEntries = {}
     /\ RepeatedEntries = {})
    => LET N == Len(last.args)
           again == InsertBatchResult(db, nextRowId, last.args)
       IN /\ last.ret = [inserted |-> N, skipped |-> 0]
          /\ again.stats = [inserted |-> 0, skipped |-> N]
          /\ again.conn.rows = db

\* C6: uniqueness of external_id is per source: insert_batch counts as skipped
\* exactly the entries whose (source, external_id) is stored or appeared earlier in
\* the batch; every other entry, also one whose external_id is stored under another
\* source, is inserted.
C6_SkipIffSameSourceAndId ==
    (last.op = "insert_batch" /\ last.raised = "") =>
        /\ last.ret.skipped = Cardinality(StoredEntries \cup RepeatedEntries)
        /\ \A i \in 1..Len(last.args) :
              i \notin (StoredEntries \cup RepeatedEntries)
                 => \E r \in db : r \notin last.pre /\ SameKey(r, last.args[i])

(***************************************************************************)
(* Claims about the download manager, checked under SpecDownload.          *)
(***************************************************************************)

\* the positions of the list that download_batch has finished
Finished == DOMAIN run.done

\* the record at position i of the list
Rec(i) == run.metadata_list[i]

\* C2: a record stays downloaded=false until the download manager has fetched its
\* file and the file has decoded as an image: downloaded=true implies that a file
\* that decodes was confirmed for the record, whether fetched or found on disk.
C2_DownloadedOnlyAfterDecode ==
    \A r \in db : r.is_downloaded => r.image_id \in hist.verified

C4_FailedIsRetried ==
    /\ \A r \in db : FilePath(r) \in hist.failed => ~r.is_downloaded
    /\ \A i \in Finished :
          (/\ FilePath(Rec(i)) \in run.failed_before
           /\ \A j \in 1..(i - 1) : FilePath(Rec(j)) # FilePath(Rec(i)))
             => run.done[i].stage = "fetch" /\ run.done[i].requests >= 1

\* C7: in every ledger state reachable through search, insert_batch and
\* download_batch, width, height and filesize of a record are unset while it has had
\* no verified download, and are only ever the values measured from the fetched file.
C7_DimensionsUnsetUntilVerified ==
    \A r \in db :
       /\ r.image_id \notin hist.verified
             => r.width = NULL /\ r.height = NULL /\ r.filesize = NULL
       /\ r.width \in {NULL, ImageFile.width}
       /\ r.height \in {NULL, ImageFile.height}
       /\ r.filesize \in {NULL, ImageFile.size}

\* what a record whose target file exists gets: no request, no rate-limit sleep,
\* update_status with the file's size and its decoded dimensions (absent when the
\* file does not decode), and the skipped count
Reconciled(i) ==
    LET file == files[FilePath(Rec(i))] IN
    /\ run.done[i].requests = 0
    /\ ~run.done[i].rate_sleep
    /\ run.done[i].update = <<Rec(i).image_id,
                               IF file.decodes THEN file.width ELSE NULL,
                               IF file.decodes THEN file.height ELSE NULL,
                               file.size>>
    /\ run.done[i].status = "SKIPPED"

C10_RateLimitSleep ==
    /\ \A i \in Finished :
          run.done[i].rate_sleep <=> (run.done[i].stage = "fetch" /\ i < Total)
    /\ \A i \in Finished :
          run.done[i].rate_sleep <=> (\E k \in DOMAIN run.events :
                                         run.events[k] = <<"rate_sleep", i>>)
    /\ \A p \in DOMAIN run.events : \A q \in DOMAIN run.events :
          (/\ p < q
           /\ run.events[p][1] = "get"
           /\ run.events[q][1] = "get"
           /\ run.events[p][2] # run.events[q][2])
             => \E k \in (p + 1)..(q - 1) : run.events[k][1] = "rate_sleep"
    /\ \A k \in DOMAIN run.events :
          run.events[k][1] = "rate_sleep"
             => /\ run.events[k][2] < Total
                /\ \E p \in 1..(k - 1) : run.events[p] = <<"get", run.events[k][2]>>

\* C10 witness: a returned run of two fetched records, a sleep after the first only
C10_Witness ==
    /\ run.returned
    /\ Total = 2
    /\ run.done[1].stage = "fetch" /\ run.done[1].rate_sleep
    /\ run.done[2].stage = "fetch" /\ ~run.done[2].rate_sleep

\* C11: download_batch processes records strictly in input order (everything done
\* for record i precedes anything done for record i+1), and each update_status is
\* committed before the next record starts: at every point of the run, a read of the
\* ledger shows every finished record that got an update_status call as downloaded.
C11_InOrderAndCommitted ==
    /\ Len(run.done) = run.idx - 1
    /\ \A k \in DOMAIN run.events : \A l \in DOMAIN run.events :
          k < l => run.events[k][2] <= run.events[l][2]
    /\ \A k \in DOMAIN run.events :
          IF pc = "attempt" THEN run.events[k][2] <= run.idx
                            ELSE run.events[k][2] < run.idx
    /\ \A i \in Finished :
          run.done[i].update # <<>>
             => \A r \in db : r.image_id = Rec(i).image_id
                   => /\ r.is_downloaded
                      /\ r.downloaded_at # NULL
                      /\ r \in Matching(db, FALSE)
                      /\ r \notin Matching(db, TRUE)

\* C11 witness: between the first and the second record, the first one's status is
\* in the ledger while the second has not begun
C11_Witness ==
    /\ pc = "record"
    /\ run.idx = 2
    /\ Total = 2
    /\ run.done[1].status = "SUCCESS"
    /\ Rec(2).image_id # Rec(1).image_id
    /\ \E r \in db : r.image_id = Rec(1).image_id /\ r.is_downloaded
    /\ \E r \in db : r.image_id = Rec(2).image_id /\ ~r.is_downloaded

(***************************************************************************)
(* Further claims about the ledger, checked under SpecLedger.              *)
(***************************************************************************)

\* the rows stored before the last call under the identity the call was given
Targets == {r \in last.pre : r.image_id = last.args[1]}

\* C12: update_status on an existing record sets downloaded=true and downloaded_at,
\* sets each of width, height, filesize that is supplied and keeps the stored value
\* of each one passed as absent (a known value is never replaced by null); it
\* changes no other field.
C12_UpdateKeepsAbsent ==
    last.op = "update_download_status" =>
       \A r \in Targets :
          \E u \in db :
             /\ u.id = r.id
             /\ u.is_downloaded
             /\ u.downloaded_at # NULL
             /\ u.width = (IF last.args[2] # NULL THEN last.args[2] ELSE r.width)
             /\ u.height = (IF last.args[3] # NULL THEN last.args[3] ELSE r.height)
             /\ u.filesize = (IF last.args[4] # NULL THEN last.args[4] ELSE r.filesize)
             /\ r.width # NULL => u.width # NULL
             /\ r.height # NULL => u.height # NULL
             /\ r.filesize # NULL => u.filesize # NULL
             /\ RowToMetadata(u) = [RowToMetadata(r) EXCEPT
                                       !.is_downloaded = u.is_downloaded,
                                       !.downloaded_at = u.downloaded_at,
                                       !.width = u.width,
                                       !.height = u.height,
                                       !.filesize = u.filesize]

\* C12 witness: width=100 with height absent, on a record stored with height=480
C12_Witness ==
    /\ last.op = "update_download_status"
    /\ last.args[2] = 100
    /\ last.args[3] = NULL
    /\ \E r \in Targets : r.height = 480 /\ r.width = 640
    /\ \E u \in db : u.image_id = last.args[1] /\ u.width = 100 /\ u.height = 480

\* C13: update_status and delete called with an identity that is not in the ledger
\* return false, raise no error and leave the ledger exactly as it was; called with
\* an identity that is in the ledger they return true.
C13_NotFoundIsFalse ==
    last.op \in {"update_download_status", "delete"} =>
       /\ last.raised = ""
       /\ last.ret \in BOOLEAN
       /\ last.ret <=> Targets # {}
       /\ Targets = {} => db = last.pre
       /\ (last.op = "delete" /\ Targets # {}) => db = last.pre \ Targets

\* C13 witness: a call on a ledger that holds records, but none under the identity given
C13_Witness ==
    /\ last.op \in {"update_download_status", "delete"}
    /\ last.pre # {}
    /\ Targets = {}
    /\ last.ret = FALSE
    /\ db = last.pre

\* the entries of the last insert_batch list whose INSERT meets the uniqueness
\* constraint: the image_id is stored, or an earlier entry of the list carried it
ConflictEntries ==
    {i \in 1..Len(last.args) :
        \/ \E r \in last.pre : r.image_id = last.args[i].image_id
        \/ \E j \in 1..(i - 1) : last.args[j].image_id = last.args[i].image_id}

\* C14: in insert_batch a uniqueness conflict on one record does not abort the
\* batch: no IntegrityError reaches the caller, and on normal return every entry
\* without a conflict, before or after a conflicting one, is stored as given, the
\* rows stored before are kept, the conflicting entries are the skipped ones and
\* inserted + skipped is the length of the batch.
C14_ConflictDoesNotAbort ==
    last.op = "insert_batch" =>
       /\ last.raised # "IntegrityError"
       /\ last.raised = "" =>
             /\ last.ret.inserted + last.ret.skipped = Len(last.args)
             /\ last.ret.skipped = Cardinality(ConflictEntries)
             /\ last.pre \subseteq db
             /\ \A i \in 1..Len(last.args) :
                   i \notin ConflictEntries
                      => \E r \in db \ last.pre : RowToMetadata(r) = last.args[i]

\* C14 witness: the first entry of a batch met a conflict and the second was stored
C14_Witness ==
    /\ last.op = "insert_batch"
    /\ last.raised = ""
    /\ Len(last.args) = 2
    /\ 1 \in ConflictEntries
    /\ 2 \notin ConflictEntries
    /\ \E r \in db \ last.pre : RowToMetadata(r) = last.args[2]
    /\ last.ret = [inserted |-> 1, skipped |-> 1]

\* C15: insert_batch commits its inserts together at the end: when an error other
\* than a uniqueness conflict occurs at a record of the batch, the error reaches the
\* caller and the ledger is exactly what it was before the call.
C15_ErrorRollsBackBatch ==
    (last.op = "insert_batch" /\ last.raised # "") => db = last.pre

\* C15 witness: the error came at the second record, after a first record that had
\* met no conflict, and that first record is not in the ledger
C15_Witness ==
    /\ last.op = "insert_batch"
    /\ last.raised = "OperationalError"
    /\ Len(last.args) = 2
    /\ 1 \notin ConflictEntries
    /\ db = last.pre
    /\ \A r \in db : r.image_id # last.args[1].image_id

(***************************************************************************)
(* Claims about the collector's search, checked under SpecSearch.          *)
(***************************************************************************)

\* the records search has accumulated, as a set
Accumulated == {srch.metadata_list[a] : a \in DOMAIN srch.metadata_list}

\* the hits of page q that are well formed
GoodHits(q) == {<<q, j>> : j \in {i \in DOMAIN srch.pages[q].hits : srch.pages[q].hits[i] = "hit"}}

\* C16: search issues at most ceil(max_results / page_size) page requests, for the
\* pages 1, 2, ..., k in increasing order with none skipped or requested twice, and
\* issues no request once max_results records have been accumulated.
C16_PageRequests ==
    LET k == Len(srch.requests) IN
    /\ k = 0 \/ (k - 1) * srch.per_page < srch.max_results
    /\ \A i \in 1..k : srch.requests[i][1] = i
    /\ \A i \in 1..k : srch.requests[i][2] < srch.max_results
    /\ Len(srch.pages) = k

\* C16 witness: a search that needed every one of its ceil(4 / 3) = 2 pages
C16_Witness ==
    /\ srch.state = "returned"
    /\ srch.max_results = 4
    /\ srch.per_page = 3
    /\ Len(srch.requests) = 2
    /\ Len(srch.metadata_list) = 4

\* C17: search returns at most max_results records, in page order and hit order
\* (every hit of an earlier page, then the hits of the last page used from its first
\* on), cutting a page short once max_results is reached; called with a positive
\* max_results that is at most the page size it issues exactly one page request,
\* even if that page holds more hits than max_results.
C17_AtMostMaxInOrder ==
    /\ Len(srch.metadata_list) <= srch.max_results
    /\ \A a \in DOMAIN srch.metadata_list : \A b \in DOMAIN srch.metadata_list :
          a < b => \/ srch.metadata_list[a][1] < srch.metadata_list[b][1]
                   \/ /\ srch.metadata_list[a][1] = srch.metadata_list[b][1]
                      /\ srch.metadata_list[a][2] < srch.metadata_list[b][2]
    /\ \A a \in DOMAIN srch.metadata_list :
          LET q == srch.metadata_list[a][1]
              i == srch.metadata_list[a][2]
          IN /\ q \in DOMAIN srch.pages
             /\ i \in DOMAIN srch.pages[q].hits
             /\ \A j \in 1..(i - 1) : <<q, j>> \in Accumulated
             /\ \A o \in 1..(q - 1) : \A j \in DOMAIN srch.pages[o].hits :
                   <<o, j>> \in Accumulated
    /\ (/\ srch.state = "returned"
        /\ srch.max_results >= 1
        /\ srch.max_results <= srch.per_page) => Len(srch.requests) = 1

\* C17 witness: max_results below the page size, and a page holding more hits than that
C17_Witness ==
    /\ srch.state = "returned"
    /\ srch.max_results = 2
    /\ srch.per_page = 3
    /\ Len(srch.requests) = 1
    /\ srch.pages[1].hits = <<"hit", "hit", "hit">>
    /\ srch.metadata_list = <<<<1, 1>>, <<1, 2>>>>

\* C18: if a page returns fewer hits than the page size, search issues no further
\* page request, even when max_results has not been reached and more pages remain
\* within total_pages; the hits of that short page (a well-formed one) are in the
\* result, up to max_results.
C18_ShortPageStops ==
    \A q \in DOMAIN srch.pages :
       (srch.pages[q].kind = "ok" /\ Len(srch.pages[q].hits) < srch.per_page)
          => /\ Len(srch.requests) = q
             /\ srch.broke
             /\ ~srch.pages[q].failed
                   => \A i \in DOMAIN srch.pages[q].hits :
                         srch.requests[q][2] + i <= srch.max_results
                            => <<q, i>> \in Accumulated

\* C18 witness: a short first page ended a search that had pages and room left
C18_Witness ==
    /\ srch.state = "returned"
    /\ srch.per_page = 2
    /\ srch.total_pages = 2
    /\ Len(srch.requests) = 1
    /\ srch.pages[1] = [kind |-> "ok", hits |-> <<"hit">>, failed |-> FALSE]
    /\ srch.metadata_list = <<<<1, 1>>>>
    /\ Len(srch.metadata_list) < srch.max_results

\* C19: if the request for page p fails (network error, non-2xx status or malformed
\* payload), search issues no request for a page after p and returns exactly the
\* records accumulated from the pages 1..p-1.
C19_FailedPageStops ==
    \A q \in DOMAIN srch.pages :
       (srch.pages[q].kind = "error" \/ srch.pages[q].failed)
          => /\ Len(srch.requests) = q
             /\ srch.broke
             /\ Accumulated = UNION {GoodHits(o) : o \in 1..(q - 1)}

(***************************************************************************)
(* Further claims about the download manager, checked under SpecDownload.  *)
(***************************************************************************)

\* C20: download_batch raises no exception, whatever the outcomes of the fetch
\* attempts of its records (transport error, timeout, non-2xx status, 429,
\* undecodable bytes), and a failed record does not keep the later ones from being
\* processed: when it returns, every record of the batch has been processed and the
\* result counts each of them once as success, failed or skipped.
C20_NeverRaises ==
    /\ pc \in {"idle", "record", "attempt"}
    /\ run.success_count + run.failed_count + run.skipped_count = Len(run.done)
    /\ \A i \in Finished : run.done[i].status \in {"SUCCESS", "FAILED", "SKIPPED"}
    /\ run.returned =>
          /\ Len(run.done) = Total
          /\ run.result.success = Cardinality({i \in Finished : run.done[i].status = "SUCCESS"})
          /\ run.result.failed = Cardinality({i \in Finished : run.done[i].status = "FAILED"})
          /\ run.result.skipped = Cardinality({i \in Finished : run.done[i].status = "SKIPPED"})

\* C20 witness: the first record of a batch failed and the second was downloaded
C20_Witness ==
    /\ run.returned
    /\ Total = 2
    /\ run.done[1].status = "FAILED"
    /\ run.done[2].status = "SUCCESS"
    /\ run.result = [success |-> 1, failed |-> 1, skipped |-> 0]

(***************************************************************************)
(* Claims about the pipeline end to end, checked under SpecDownload.       *)
(***************************************************************************)

\* C28: between the records of a download_batch run and after it returns, a file
\* exists at a target path only if it was completely written and decodes as an
\* image: no failed attempt of any kind leaves a partial or corrupt file behind.
C28_NoPartialFileLeft ==
    pc \in {"record", "idle"} => \A p \in Paths : files[p].exists => files[p].decodes

\* the stored rows of `before` that were marked downloaded
Downloaded(before) == {r \in before : r.is_downloaded}

\* C22: a ledger record is mutated exactly once, at its successful verified
\* download: once it is downloaded=true no later download_batch run (one given the
\* same list again, or a list holding the record twice) changes any of its fields,
\* downloaded_at included.  Stated on the ledger calls download_batch makes and on
\* the ledger at the start of the run.
C22_MutatedOnce ==
    /\ last.op = "update_download_status" => \A r \in Downloaded(last.pre) : r \in db
    /\ \A r \in Downloaded(run.start_db) : r \in db

\* C30: every record download_batch counts under success has a ledger record of
\* its identity with downloaded=true when download_batch returns, and the success
\* count is the number of ledger records the run turned from downloaded=false to
\* downloaded=true.
C30_SuccessCountIsTurned ==
    run.returned =>
       /\ \A i \in Finished :
             run.done[i].status = "SUCCESS"
                => \E r \in db : r.image_id = Rec(i).image_id /\ r.is_downloaded
       /\ run.result.success =
             Cardinality({r \in run.start_db :
                             /\ ~r.is_downloaded
                             /\ \E r2 \in db : r2.id = r.id /\ r2.is_downloaded})

\* row r2 is the stored record r: same row, same source, label, external id, url
\* and search query
SameRecord(r, r2) ==
    /\ r2.id = r.id
    /\ r2.source = r.source
    /\ r2.label = r.label
    /\ r2.image_id = r.image_id
    /\ r2.image_url = r.image_url
    /\ r2.search_query = r.search_query

\* C23: no step of search, insert_batch, get_all, get_pending, update_status and
\* download_batch removes a record from the ledger or changes a stored record's
\* source, label, external_id, url or search_query: every stored record is still
\* stored, with these fields as they were, after every step.
C23_NeverRemovedNorRekeyed ==
    [][\A r \in db : \E r2 \in db' : SameRecord(r, r2)]_vars

\* C23 witness: a run that returned has marked a record downloaded that was stored
\* before it, next to another stored record, and the record is the same record
C23_Witness ==
    /\ run.returned
    /\ Cardinality(db) > 1
    /\ \E r \in run.start_db :
          /\ ~r.is_downloaded
          /\ \E r2 \in db : SameRecord(r, r2) /\ r2.is_downloaded

\* the positions of run.events that are a sleep(5) of the retry loop
RetrySleepEvents == {j \in DOMAIN run.events : run.events[j][1] = "retry_sleep"}

\* C29: the retry delay is taken exactly between two consecutive attempts of a
\* record: a record that succeeds on attempt k has had k-1 retry sleeps, a record
\* that fails every attempt max_retries-1, and no retry sleep follows a successful
\* attempt or the last attempt.
C29_RetrySleepBetweenAttempts ==
    /\ \A i \in Finished :
          run.done[i].stage = "fetch" =>
             /\ run.done[i].retry_sleeps = run.done[i].requests - 1
             /\ run.done[i].status = "FAILED" => run.done[i].retry_sleeps = MaxRetries - 1
    /\ pc = "attempt" => run.cur.retry_sleeps = run.cur.requests
    /\ \A j \in RetrySleepEvents :
          /\ j > 1
          /\ run.events[j - 1] = <<"get", run.events[j][2]>>
          /\ IF j < Len(run.events)
             THEN run.events[j + 1] = <<"get", run.events[j][2]>>
             ELSE pc = "attempt" /\ run.idx = run.events[j][2]
    /\ \A j \in DOMAIN run.events :
          (j < Len(run.events) /\ run.events[j][1] = "get")
             => run.events[j + 1] # <<"get", run.events[j][2]>>

\* C29 witness: a run returned in which one record succeeded on its third attempt
\* after two retry sleeps and another failed all its attempts
C29_Witness ==
    /\ run.returned
    /\ \E i \in Finished :
          /\ run.done[i].status = "SUCCESS"
          /\ run.done[i].requests = MaxRetries
          /\ run.done[i].retry_sleeps = MaxRetries - 1
    /\ \E i \in Finished :
          /\ run.done[i].status = "FAILED"
          /\ run.done[i].retry_sleeps = MaxRetries - 1

\* the run that returned was the first download_batch after the search and the
\* insert_batch, on the n records found, and every fetch succeeded at once
EndToEndRun ==
    /\ run.returned
    /\ hist.calls = 2
    /\ Len(run.metadata_list) = Len(found)
    /\ \A i \in Finished :
          /\ run.done[i].stage = "fetch"
          /\ run.done[i].status = "SUCCESS"
          /\ run.done[i].failures = 0

\* C21: end to end, from an empty ledger and no files on disk: when the search
\* returned n hits on page 1 and every fetch succeeds and decodes, then after
\* search, insert_batch and download_batch on those records the ledger holds exactly
\* n records, all downloaded=true with the measured width, height and filesize, and
\* get_pending returns the empty sequence.  Checked for n up to 3.
C21_EndToEnd ==
    EndToEndRun =>
       /\ Cardinality(db) = Len(found)
       /\ \A i \in DOMAIN found : \E r \in db : r.image_id = found[i].image_id
       /\ \A r \in db :
             /\ r.is_downloaded
             /\ r.width = ImageFile.width
             /\ r.height = ImageFile.height
             /\ r.filesize = ImageFile.size
       /\ GetAll(db, TRUE, PendingLimit) = {<<>>}

\* C21 witness: the case n = 3
C21_Witness ==
    /\ EndToEndRun
    /\ Len(found) = 3
    /\ run.result = [success |-> 3, failed |-> 0, skipped |-> 0]

(***************************************************************************)
(* Claims about the ledger's read operations, checked under SpecQuery.     *)
(***************************************************************************)

\* the stored records that pass the filters of a read call
Filtered(rows, source, label, only_pending) ==
    {r \in rows : /\ source = NoFilter \/ r.source = source
                  /\ label = NoFilter \/ r.label = label
                  /\ ~only_pending \/ ~r.is_downloaded}

\* the slice of q that starts at index offset (counted from 0) and has at most
\* limit elements, all remaining ones when limit is absent
Slice(q, limit, offset) ==
    LET end == IF limit = NULL \/ Len(q) < offset + limit THEN Len(q) ELSE offset + limit
    IN [i \in 1..(IF end > offset THEN end - offset ELSE 0) |-> RowToMetadata(q[offset + i])]

\* C24: get_all returns the records matching the source/label/only_pending
\* filters ordered by acquisition time, most recent first, and for every limit
\* (absent or >= 0) and offset (>= 0) returns exactly the slice of that sequence
\* that starts at index offset and has at most limit elements (all remaining ones
\* when limit is absent).
C24_GetAllSlice ==
    last.op = "get_all" =>
       /\ last.raised = ""
       /\ \E q \in Orderings(Filtered(last.pre, last.args[1], last.args[2], last.args[5])) :
             last.ret = Slice(q, last.args[3], last.args[4])

\* update_download_status has just returned true for the record image_id
UpdateReturnedTrue(image_id) ==
    /\ last.op = "update_download_status"
    /\ last.args[1] = image_id
    /\ last.ret = TRUE

\* get_pending_downloads has just returned the record image_id
PendingReturned(image_id) ==
    /\ last.op = "get_pending_downloads"
    /\ last.raised = ""
    /\ \E i \in DOMAIN last.ret : last.ret[i].image_id = image_id

\* what get_pending_downloads just returned is what get_all returns for
\* only_not_downloaded=True and the same arguments, and every record of it is
\* stored with downloaded=false
PendingIsGetAll ==
    last.op = "get_pending_downloads" =>
       LET limit == last.args[1]
           offset == last.args[2]
           source == last.args[3]
           label == last.args[4]
           all == GetAllQuery(last.pre, source, label, limit, offset, TRUE)
       IN /\ last.raised = all.raised
          /\ last.ret \in all.ret
          /\ \A i \in DOMAIN last.ret :
                \E r \in last.pre : RowToMetadata(r) = last.ret[i] /\ ~r.is_downloaded

\* C25: get_pending(limit, offset, source, label) returns the same sequence as
\* get_all with only_pending=true and the same arguments; every record it returns
\* has downloaded=false in the ledger at the time of the call; and once
\* update_status has returned true for a record, no later get_pending returns it.
C25_PendingQueue ==
    /\ []PendingIsGetAll
    /\ \A image_id \in Ids : [](UpdateReturnedTrue(image_id) => [](~PendingReturned(image_id)))

\* C25 witness: get_pending_downloads returned a record and left out a stored
\* record that passes its source and label filters and was marked downloaded
C25_Witness ==
    /\ last.op = "get_pending_downloads"
    /\ last.raised = ""
    /\ Len(last.ret) > 0
    /\ \E r \in Filtered(last.pre, last.args[3], last.args[4], FALSE) : r.is_downloaded

(***************************************************************************)
(* Claims about download_pending_from_db, checked under SpecDownload.      *)
(***************************************************************************)

\* C26: download_pending_from_db(limit, source, label) runs download_batch on
\* exactly the ledger's pending records that match the source/label filters, most
\* recent first: at most limit of them when limit is given, all of them when limit
\* is absent; when there are none it returns success=failed=skipped=0 without any
\* network call.
C26_DownloadPendingFromDb ==
    run.call # <<>> =>
       LET limit == run.call[1]
           pending == Filtered(run.start_db, run.call[2], run.call[3], TRUE)
       IN /\ \E q \in Orderings(pending) : run.metadata_list = Slice(q, limit, 0)
          /\ pending = {} =>
                /\ run.returned
                /\ run.result = [success |-> 0, failed |-> 0, skipped |-> 0]
                /\ run.events = <<>>

(***************************************************************************)
(* Claims about ImageMetadataDB, checked under SpecImages.                 *)
(***************************************************************************)

Ended(status) == {i \in Finished : run.done[i].status = status}

\* C31: for every input list and every setting of skip_already_downloaded the
\* result of download_batch has success + failed + skipped = number of input
\* records, and each record contributes to exactly one of the three counts.
C31_CountsPartitionTheList ==
    /\ run.success_count = Cardinality(Ended("SUCCESS"))
    /\ run.failed_count = Cardinality(Ended("FAILED"))
    /\ run.skipped_count = Cardinality(Ended("SKIPPED"))
    /\ \A i \in Finished : run.done[i].status \in {"SUCCESS", "FAILED", "SKIPPED"}
    /\ run.returned =>
          /\ Finished = 1..Total
          /\ run.result.success + run.result.failed + run.result.skipped = Total
          /\ run.result = [success |-> run.success_count, failed |-> run.failed_count,
                           skipped |-> run.skipped_count]

\* C31 witness: a run with skip_already_downloaded unset returned a result in
\* which two of the three counts are 1
C31_Witness ==
    /\ run.returned
    /\ Total = 2
    /\ ~run.skip_already_downloaded
    /\ run.result.skipped = 1
    /\ run.result.failed = 1

\* C33: for every ledger record that download_batch has set to downloaded=true a
\* file exists at the path derived from that record's own (source, label,
\* external_id), also when download_batch was fed collector output whose label
\* differs from the label stored for the same external_id.
C33_FileAtLedgerPath ==
    \A r \in db : r.is_downloaded => files[FilePath(r)].exists

\* the downloaded state of stored record r is still there in row r2: the same
\* record, downloaded, and each of width, height, filesize that was set is set
StillDownloaded(r, r2) ==
    /\ r2.image_id = r.image_id
    /\ r2.source = r.source
    /\ r2.is_downloaded
    /\ r2.downloaded_at # NULL
    /\ r.width # NULL => r2.width # NULL
    /\ r.height # NULL => r2.height # NULL
    /\ r.filesize # NULL => r2.filesize # NULL

SameOutsideStatus(r, u) ==
    [u EXCEPT !.is_downloaded = r.is_downloaded,
              !.downloaded_at = r.downloaded_at,
              !.width = r.width,
              !.height = r.height,
              !.filesize = r.filesize] = r

\* C36: update_status(identity, ...) changes at most downloaded, downloaded_at,
\* width, height and filesize of the one record with that identity: at most one
\* stored record has the identity, every other record is stored exactly as it
\* was, no record is added or lost, and the record with the identity differs
\* from what it was in those five fields only.
C36_UpdateFrame ==
    last.op = "update_download_status" =>
       /\ Cardinality(Targets) <= 1
       /\ Cardinality(db) = Cardinality(last.pre)
       /\ \A r \in last.pre \ Targets : r \in db
       /\ \A r \in Targets : \E u \in db : SameOutsideStatus(r, u)
       /\ \A u \in db : u \in last.pre \/ \E r \in Targets : SameOutsideStatus(r, u)

\* C36 witness: an update changed the record with the identity, next to another
\* stored record that is not downloaded
C36_Witness ==
    /\ last.op = "update_download_status"
    /\ last.ret = TRUE
    /\ \E r \in Targets : r \notin db
    /\ \E r \in last.pre \ Targets : ~r.is_downloaded /\ r \in db

\* C37: the single-record insert on a key (source, external_id) that is already
\* stored raises an integrity error and leaves the ledger exactly as it was; on a
\* new key it stores the record and returns its row id.
C37_InsertRaisesOrStores ==
    last.op = "insert" =>
       LET m == last.args[1] IN
       IF \E r \in last.pre : SameKey(r, m)
       THEN last.raised = "IntegrityError" /\ db = last.pre
       ELSE /\ last.raised = ""
            /\ last.ret # NULL
            /\ \A r \in last.pre : r.id # last.ret
            /\ db = last.pre \cup {MetadataToRow(last.ret, m)}

(***************************************************************************)
(* The storage boundary of the ledger: what insert binds to its statement  *)
(* and what _row_to_metadata makes of a row.  Under SpecRoundTrip the rows *)
(* of db hold the columns as SQLite stores them: a value is <<"NULL">>,    *)
(* <<"INTEGER", n>> or <<"TEXT", s>>.  An enum member is its name, a       *)
(* string is a TLA+ string or, for an ISO timestamp, its decimal digits.   *)
(***************************************************************************)

\* class ImageSource: member name -> value
ImageSource == [PIXABAY |-> "PIXABAY", UNSPLASH |-> "UNSPLASH", PEXELS |-> "PEXELS"]

\* class ImageLabel: member name -> value
ImageLabel == [ELECTRIC |-> "ELECTRIC", ACOUSTIC |-> "ACOUSTIC"]

\* member.value
EnumValue(enum, member) == enum[member]

\* Enum(value): the member with that value
EnumOf(enum, value) == CHOOSE member \in DOMAIN enum : enum[member] = value

SqlNull == <<"NULL">>
SqlInteger(n) == <<"INTEGER", n>>
SqlText(s) == <<"TEXT", s>>

\* datetime.isoformat(): the timestamp written out in decimal digits
RECURSIVE Isoformat(_)
Isoformat(t) == IF t < 10 THEN <<t>> ELSE Append(Isoformat(t \div 10), t % 10)

\* Fromisoformat with a fault: only the first digit of the string is read
FromisoformatShort(s) == IF s = <<>> THEN 0 ELSE s[1]

\* datetime.fromisoformat(s)
RECURSIVE Fromisoformat(_)
Fromisoformat(s) == IF s = <<>> THEN 0 ELSE 10 * Fromisoformat(SubSeq(s, 1, Len(s) - 1)) + s[Len(s)]

\* an Optional[int] parameter as sqlite3 binds it
BindOptionalInt(v) == IF v = NULL THEN SqlNull ELSE SqlInteger(v)

\* a bool parameter as sqlite3 binds it
BindBool(b) == SqlInteger(IF b THEN 1 ELSE 0)

\* the parameters insert binds to its INSERT statement, as the row stored under id
InsertParameters(id, metadata) ==
    [id            |-> id,
     source        |-> SqlText(EnumValue(ImageSource, metadata.source)),
     label         |-> SqlText(EnumValue(ImageLabel, metadata.label)),
     image_id      |-> SqlText(metadata.image_id),
     image_url     |-> SqlText(metadata.image_url),
     search_query  |-> SqlText(metadata.search_query),
     searched_at   |-> SqlText(Isoformat(metadata.searched_at)),
     license       |-> SqlText(metadata.license),
     width         |-> BindOptionalInt(metadata.width),
     height        |-> BindOptionalInt(metadata.height),
     filesize      |-> BindOptionalInt(metadata.filesize),
     is_downloaded |-> BindBool(metadata.is_downloaded),
     downloaded_at |-> IF metadata.downloaded_at # NULL
                       THEN SqlText(Isoformat(metadata.downloaded_at))
                       ELSE SqlNull]

\* row['column'] of an INTEGER column: the int, or None
ColumnInt(value) == IF value[1] = "NULL" THEN NULL ELSE value[2]

\* the truth value Python gives row['column'] of a TEXT column
Truthy(value) == value[1] # "NULL" /\ value[2] # <<>>

\* _row_to_metadata on a stored row
RowToMetadataStored(row) ==
    [source        |-> EnumOf(ImageSource, row.source[2]),
     label         |-> EnumOf(ImageLabel, row.label[2]),
     image_id      |-> row.image_id[2],
     image_url     |-> row.image_url[2],
     search_query  |-> row.search_query[2],
     searched_at   |-> Fromisoformat(row.searched_at[2]),
     license       |-> row.license[2],
     width         |-> ColumnInt(row.width),
     height        |-> ColumnInt(row.height),
     filesize      |-> ColumnInt(row.filesize),
     is_downloaded |-> row.is_downloaded[2] # 0,
     downloaded_at |-> IF Truthy(row.downloaded_at)
                       THEN Fromisoformat(row.downloaded_at[2])
                       ELSE NULL]

\* SELECT * FROM image_metadata WHERE image_id = ?
SelectById(rows, image_id) == {r \in rows : r.image_id = SqlText(image_id)}

\* get_by_id as a function of the table: no record, or the one record found
GetByIdResult(rows, image_id) == {RowToMetadataStored(r) : r \in SelectById(rows, image_id)}

\* the records stored and read back: a fresh search result, a record with all
\* optional fields set that is already downloaded, a record of another source
\* with a width alone and a later timestamp
RoundTripInputs ==
    {NewMetadata("PIXABAY", "ELECTRIC", "a", NULL, NULL, NULL, 1),
     [NewMetadata("PIXABAY", "ACOUSTIC", "a", 1280, 853, 900, 12)
         EXCEPT !.is_downloaded = TRUE, !.downloaded_at = 120],
     NewMetadata("UNSPLASH", "ACOUSTIC", "b", 640, NULL, NULL, 305),
     [NewMetadata("PIXABAY", "ELECTRIC", "b", NULL, NULL, 0, 40)
         EXCEPT !.is_downloaded = TRUE, !.downloaded_at = 41]}

\* insert(metadata) at the storage boundary
InsertStored(metadata) ==
    /\ pc = "idle"
    /\ nextRowId <= MaxRowId
    /\ IF SelectById(db, metadata.image_id) # {}
       THEN /\ UNCHANGED <<db, nextRowId>>
            /\ last' = [op |-> "insert", args |-> <<metadata>>, pre |-> db,
                        raised |-> "IntegrityError", ret |-> {}]
       ELSE /\ db' = db \cup {InsertParameters(nextRowId, metadata)}
            /\ nextRowId' = nextRowId + 1
            /\ last' = [op |-> "insert", args |-> <<metadata>>, pre |-> db,
                        raised |-> "", ret |-> {nextRowId}]
    /\ UNCHANGED now
    /\ DownloadUnchanged

\* get_by_id(image_id)
GetById(image_id) ==
    /\ pc = "idle"
    /\ last' = [op |-> "get_by_id", args |-> <<image_id>>, pre |-> db,
                raised |-> "", ret |-> GetByIdResult(db, image_id)]
    /\ UNCHANGED <<db, nextRowId, now>>
    /\ DownloadUnchanged

\* delete(image_id) at the storage boundary
DeleteStored(image_id) ==
    /\ pc = "idle"
    /\ db' = db \ SelectById(db, image_id)
    /\ last' = [op |-> "delete", args |-> <<image_id>>, pre |-> db,
                raised |-> "", ret |-> {SelectById(db, image_id) # {}}]
    /\ UNCHANGED <<nextRowId, now>>
    /\ DownloadUnchanged

RoundTripNext ==
    \/ \E metadata \in RoundTripInputs : InsertStored(metadata)
    \/ \E image_id \in Ids \cup {"c"} : GetById(image_id)
    \/ \E image_id \in Ids : DeleteStored(image_id)

SpecRoundTrip == Init /\ [][RoundTripNext]_vars

\* C38: storing a record and reading it back by its id returns a record equal to
\* the stored one in every field (source and label survive their string codes,
\* absent optional fields stay absent): right after a successful insert, and at
\* every later get_by_id while the row is stored, the lookup returns exactly the
\* record given to insert; a lookup of an id that is not stored (never stored, or
\* deleted) returns absent.
C38_RoundTrip ==
    /\ (last.op = "insert" /\ last.raised = "")
          => GetByIdResult(db, last.args[1].image_id) = {last.args[1]}
    /\ last.op = "delete" => GetByIdResult(db, last.args[1]) = {}
    /\ last.op = "get_by_id" =>
          /\ last.ret \subseteq RoundTripInputs
          /\ Cardinality(last.ret) <= 1
          /\ \A m \in last.ret :
                /\ m.image_id = last.args[1]
                /\ \E r \in db : r = InsertParameters(r.id, m)
          /\ last.ret = {} <=> ~\E r \in db : r.image_id = SqlText(last.args[1])
    /\ \A r \in db : \E m \in RoundTripInputs :
          r = InsertParameters(r.id, m) /\ GetByIdResult(db, m.image_id) = {m}
    /\ \A image_id \in Ids \cup {"c"} :
          (\A r \in db : r.image_id # SqlText(image_id)) => GetByIdResult(db, image_id) = {}

\* C38 witness: a record with a two-digit timestamp, downloaded, with all optional
\* fields set was read back next to a stored record that has optional fields absent
C38_Witness ==
    /\ last.op = "get_by_id"
    /\ \E m \in last.ret : m.downloaded_at = 120 /\ m.is_downloaded /\ m.label = "ACOUSTIC"
    /\ \E r \in db : r.height = SqlNull /\ r.downloaded_at = SqlNull

(***************************************************************************)
(* The download manager constructed with other settings than its defaults. *)
(***************************************************************************)

\* the max_retries values a caller constructs the manager with
RetrySettings == 0..MaxRetries

\* a fresh ledger and an ImageDownloadManager constructed with any max_retries of
\* RetrySettings that __init__ accepts
InitRetries ==
    /\ Fresh
    /\ \E max_retries \in RetrySettings :
          /\ Accepts(max_retries, Float(DefaultMinSleep), Float(DefaultMaxSleep))
          /\ manager = NewManager(max_retries, Float(DefaultMinSleep), Float(DefaultMaxSleep))

\* search and insert_batch, then download_batch on the collector's output or on a
\* get_all list
RetriesNext ==
    \/ \E hits \in SearchHits : QueryAndUpdateDatabase("ELECTRIC", hits)
    \/ DownloadFound
    \/ DownloadAll
    \/ SkipMarkedDownloaded
    \/ FileExistsOnDisk
    \/ BeginFetch
    \/ \E response \in Responses : Attempt(response)
    \/ ReturnResult

SpecRetries == InitRetries /\ [][RetriesNext]_vars

\* C34: for every ImageDownloadManager the constructor accepts, a record that
\* reaches the fetch stage gets at least one fetch attempt before it is counted
\* failed, and the number of attempts for one record in one run is between 1 and
\* max_retries.
C34_AttemptsWithinRetries ==
    \A i \in Finished :
       run.done[i].stage = "fetch" =>
          /\ run.done[i].requests >= 1
          /\ run.done[i].requests <= manager.max_retries

(***************************************************************************)
(* _random_sleep as a function of the constructor's sleep bounds.          *)
(***************************************************************************)

\* the largest sleep bound, in seconds, a caller constructs the manager with
MaxSleep == 3

\* the floats a caller passes as min_sleep and max_sleep, and the floats uniform
\* can return: the whole and the half seconds up to MaxSleep, and a negative one
SleepValues ==
    {Float(n) : n \in 0..MaxSleep} \cup {<<2 * n + 1, 2>> : n \in 0..(MaxSleep - 1)}
       \cup {<<-1, 2>>}

\* a fresh ledger and an ImageDownloadManager constructed with any sleep bounds
\* of SleepValues that __init__ accepts
InitSleep ==
    /\ Fresh
    /\ \E min_sleep \in SleepValues, max_sleep \in SleepValues :
          /\ Accepts(MaxRetries, min_sleep, max_sleep)
          /\ manager = NewManager(MaxRetries, min_sleep, max_sleep)

\* uniform(a, b): the floats x with a <= x <= b
Uniform(a, b) == {x \in SleepValues : ~Less(x, a) /\ ~Less(b, x)}

\* int(x) of a float that is not negative: the fraction is cut off
IntOf(x) == x[1] \div x[2]

\* _random_sleep(): sleep(int(uniform(min_sleep, max_sleep))); x is what uniform returned
RandomSleep(x) ==
    /\ pc = "idle"
    /\ x \in Uniform(manager.min_sleep, manager.max_sleep)
    /\ last' = [op |-> "_random_sleep", args |-> <<x>>, pre |-> {},
                raised |-> "", ret |-> IntOf(x)]
    /\ UNCHANGED <<db, nextRowId, now>>
    /\ DownloadUnchanged

SleepNext == \E x \in SleepValues : RandomSleep(x)

SpecSleep == InitSleep /\ [][SleepNext]_vars

\* C39: every rate-limit sleep duration d satisfies min_sleep <= d <= max_sleep,
\* for every (min_sleep, max_sleep) the constructor accepts, also non-integer ones.
C39_SleepWithinBounds ==
    last.op = "_random_sleep" =>
       /\ ~Less(Float(last.ret), manager.min_sleep)
       /\ ~Less(manager.max_sleep, Float(last.ret))

(***************************************************************************)
(* Repeated runs of download_pending_from_db on a ledger whose records     *)
(* were found by searches made at different times.                         *)
(***************************************************************************)

\* the records of two searches: a was found first, b later
PendingInputs ==
    {NewMetadata("PIXABAY", "ELECTRIC", "a", NULL, NULL, NULL, 1),
     NewMetadata("PIXABAY", "ELECTRIC", "b", NULL, NULL, NULL, 2)}

\* records are stored, and download_pending_from_db is run again and again, next to
\* download_batch on a get_all list
PendingRunsNext ==
    \/ \E m \in PendingInputs : Insert(m)
    \/ \E call \in PendingCalls : DownloadPendingFromDb(call[1], call[2], call[3])
    \/ DownloadAll
    \/ SkipMarkedDownloaded
    \/ FileExistsOnDisk
    \/ BeginFetch
    \/ \E response \in Responses : Attempt(response)
    \/ ReturnResult

SpecPendingRuns == Init /\ [][PendingRunsNext]_vars

\* the pending records the filters of the running call select
Waiting == Selected(db, run.call[2], run.call[3], TRUE)

\* the run of download_pending_from_db that returned changed nothing: every record
\* of its list failed, and the ledger and the files are as they were at its start
ChangedNothing ==
    /\ run.returned
    /\ run.call # <<>>
    /\ run.metadata_list # <<>>
    /\ db = run.start_db
    /\ \A i \in Finished : run.done[i].status = "FAILED" /\ run.done[i].files_same

\* C32: under repeated runs of download_pending_from_db with a fixed limit every
\* pending record whose fetch would succeed is eventually marked downloaded, also
\* when other pending records fail on every attempt in every run.  In a finite
\* run: a run that changed nothing, while a pending record waits outside its list,
\* is not bound to be repeated as it was: the next run with the same arguments can
\* get another list.  (When it cannot, the same records fail in every run and the
\* waiting record is never fetched.)
C32_NoStarvation ==
    (ChangedNothing /\ \E r \in Waiting : \A i \in Finished : Rec(i).image_id # r.image_id)
       => \E next \in GetPendingDownloads(db, LimitOrDefault(run.call[1]), 0,
                                          run.call[2], run.call[3]).ret :
             next # run.metadata_list

====
